---- MODULE Spec2Model ----
(***************************************************************************)
(* Model of gamegym/algorithms/bestresponse.py: the exact best response    *)
(* (BestResponse.__init__ with its closures trace and traverse), the       *)
(* policy lookup _strategy, and the entry points exploitability and        *)
(* approx_exploitability.                                                  *)
(*                                                                         *)
(* The recursion of trace/traverse is an explicit call stack; every        *)
(* invocation of trace is one step, and every iteration of the loops of    *)
(* traverse and of the constructor is one step.                            *)
(*                                                                         *)
(* A game is a binary tree in heap layout (node n has the successors 2n    *)
(* and 2n+1 for the actions 1 and 2).  Probabilities are dyadic and kept   *)
(* as integer numerators: a reach probability q stands for q / ProbOne, a  *)
(* distribution entry d for d / DistOne.  Products and sums of such        *)
(* numbers are exact in binary floating point, so the integer arithmetic   *)
(* below is the arithmetic of the code.                                    *)
(***************************************************************************)
EXTENDS Integers, Sequences, FiniteSets, TLC

\* ------------------------------------------------------------ bounds
\* game.players ranges over 1..MaxPlayers
MaxPlayers == 3
\* the player argument ranges over -1..MaxPlayerArg
MaxPlayerArg == 2
\* max_nodes ranges over 2..MaxBudget and the default
MaxBudget == 6

\* ------------------------------------------------------------ constants
\* StateInfo markers read from situation.player
TERMINAL == -1
CHANCE == -2
\* default of max_nodes (1e6)
DefaultMaxNodes == 1000000

\* ------------------------------------------------------------ the tree
Inner == {1, 2, 3}
Leaves == {4, 5, 6, 7}
Nodes == Inner \cup Leaves
Root == 1
Actions == <<1, 2>>
\* a distribution entry d stands for d / DistOne
DistOne == Len(Actions)
\* a reach probability q stands for q / ProbOne (two levels of halving)
ProbOne == DistOne * DistOne
Payoffs == {-1, 1}
Dists == {<<1, 1>>, <<2, 0>>, <<0, 2>>}
ObsKeys == {1, 2, 3}

\* game.play(situation, action)
play(n, a) == 2 * n + (a - 1)
Parent(n) == n \div 2
ActionTo(n) == (n % 2) + 1

TermNode(v) ==
  [player |-> TERMINAL, obs |-> 0, chance |-> <<0, 0>>, v |-> v, bad |-> FALSE]
ChanceNode(d) ==
  [player |-> CHANCE, obs |-> 0, chance |-> d, v |-> 0, bad |-> FALSE]
DecisionNode(o, k) ==
  [player |-> o, obs |-> k, chance |-> <<0, 0>>, v |-> 0, bad |-> FALSE]
\* a malformed node of a test double: reading anything of it fails
BadNode ==
  [player |-> TERMINAL, obs |-> 0, chance |-> <<0, 0>>, v |-> 0, bad |-> TRUE]
\* a position below a terminal node: not part of the game
Absent ==
  [player |-> TERMINAL, obs |-> 0, chance |-> <<0, 0>>, v |-> 0, bad |-> FALSE]

\* The strategy under test, a function of the observation: each seat of the
\* profile [strategy, strategy] answers get_policy(situation) with it.
strategy == [k \in ObsKeys |-> CASE k = 1 -> <<1, 1>>
                                 [] k = 2 -> <<2, 0>>
                                 [] OTHER -> <<0, 2>>]

IsInner(r) == ~r.bad /\ r.player # TERMINAL
\* the distribution the walker iterates at a chance or opponent node
DistOf(r) == IF r.player = CHANCE THEN r.chance ELSE strategy[r.obs]

\* ------------------------------------------------------------ the games
RootRecs ==
  {TermNode(v) : v \in Payoffs} \cup {ChanceNode(d) : d \in Dists}
    \cup {DecisionNode(o, 1) : o \in {0, 1}}
InnerRecs ==
  {TermNode(v) : v \in Payoffs} \cup {ChanceNode(d) : d \in Dists}
    \cup {DecisionNode(o, k) : o \in {0, 1}, k \in ObsKeys}
LeafRecs == {TermNode(v) : v \in Payoffs}
\* the records a successor of the root may carry
SecondRecs(r1) == IF IsInner(r1) THEN InnerRecs \cup {BadNode} ELSE {Absent}
LeafChoices(r) == IF IsInner(r) THEN LeafRecs \cup {BadNode} ELSE {Absent}
\* the tree with the records r1 (root), r2, r3 (depth 1) and l4..l7 (leaves);
\* the positions below a terminal or malformed node are not part of the game
MakeTree(r1, r2, r3, l4, l5, l6, l7) ==
  (1 :> r1) @@ (2 :> r2) @@ (3 :> r3) @@ (4 :> l4) @@ (5 :> l5) @@ (6 :> l6) @@ (7 :> l7)

\* ------------------------------------------------------------ reading a game
\* n is a node of the game: every node on the way to it has successors
RECURSIVE InTree(_, _)
InTree(t, n) == n = Root \/ (InTree(t, Parent(n)) /\ IsInner(t[Parent(n)]))
\* the probability of the edge into n under chance and the strategy
EdgeDist(t, n) == DistOf(t[Parent(n)])[ActionTo(n)]
\* a malformed node stands only where the walker for `pl` reaches it with
\* probability 0: below a chance or opponent edge of probability 0
BadSafe(t, pl) ==
  \A n \in Nodes : t[n].bad =>
     /\ n # Root
     /\ t[Parent(n)].player # pl
     /\ EdgeDist(t, n) = 0
\* situation.payoff: the payoff vector of a terminal node of a game with
\* `np` players; zero-sum games give -v to the second seat
payoff(g, n) ==
  [i \in 0..(g.players - 1) |->
     CASE i = 0 -> g.tree[n].v
       [] i = 1 -> IF g.zerosum THEN -g.tree[n].v ELSE g.tree[n].v
       [] OTHER -> 0]

\* ------------------------------------------------------------ the state
VARIABLES
  game,            \* [players, zerosum, tree]: the game argument
  call,            \* [entry, player, nstrategies]: the call being made
  max_nodes,       \* the max_nodes argument
  player,          \* BestResponse's player argument
  status,          \* where the call stands
  nodes,           \* the closure's node counter
  heap,            \* the supports dictionaries, by identity (1 = the root's)
  stack,           \* the frames of __init__, trace and traverse
  best_responses,  \* self.best_responses
  value,           \* self.value: <<>> until assigned
  returned,        \* what exploitability returned: <<>> until it returns
  started,         \* game.start() has been called
  calls,           \* history: the trace invocations, in order
  read,            \* history: the nodes whose player was read
  solves,          \* history: the traverse invocations, in order
  results,         \* history: what each traverse invocation returned from
  rets             \* history: what the trace invocation on a node returned

vars == <<game, call, max_nodes, player, status, nodes, heap, stack,
          best_responses, value, returned, started, calls, read, solves,
          results, rets>>

inputs == <<game, call, max_nodes>>
history == <<calls, read, solves, results, rets>>

Entries == {"BestResponse", "exploitability", "approx_exploitability"}
MaxNodesArgs == (2..MaxBudget) \cup {DefaultMaxNodes}

\* the decision nodes of the tree belong to players of the game
OwnersOk(t, np) ==
  \A n \in Nodes : (InTree(t, n) /\ IsInner(t[n]) /\ t[n].player # CHANCE)
                      => t[n].player < np
\* at most the root and its successors
Small(t) == \A n \in Leaves : ~InTree(t, n)
\* the player for whom the traversal would run
Responder(c) == IF c.entry = "BestResponse" THEN c.player ELSE 1 - c.player

Init ==
  /\ \E r1 \in RootRecs :
     \E r2 \in SecondRecs(r1), r3 \in SecondRecs(r1) :
     \E l4 \in LeafChoices(r2), l5 \in LeafChoices(r2),
        l6 \in LeafChoices(r3), l7 \in LeafChoices(r3) :
       LET t == MakeTree(r1, r2, r3, l4, l5, l6, l7) IN
       \/ /\ BadSafe(t, 1)
          /\ game = [players |-> 2, zerosum |-> TRUE, tree |-> t]
          /\ call = [entry |-> "BestResponse", player |-> 1, nstrategies |-> 2]
          /\ player = 1
       \/ /\ Small(t)
          /\ \E np \in 1..MaxPlayers, zs \in BOOLEAN, e \in Entries,
                pl \in -1..MaxPlayerArg, ns \in 1..MaxPlayers :
               LET c == [entry |-> e, player |-> pl, nstrategies |-> ns] IN
               /\ e # "BestResponse" => ns = 2
               /\ OwnersOk(t, np)
               /\ game = [players |-> np, zerosum |-> zs, tree |-> t]
               /\ call = c
               /\ player = IF e = "BestResponse" THEN pl ELSE -1
  /\ max_nodes \in MaxNodesArgs
  /\ status = "called"
  /\ nodes = 0
  /\ heap = <<>>
  /\ stack = <<>>
  /\ best_responses = <<>>
  /\ value = <<>>
  /\ returned = <<>>
  /\ started = FALSE
  /\ calls = <<>>
  /\ read = {}
  /\ solves = <<>>
  /\ results = <<>>
  /\ rets = <<>>

\* ------------------------------------------------------------ frames
Top == stack[Len(stack)]
Callers == SubSeq(stack, 1, Len(stack) - 1)
SetTop(fr) == [stack EXCEPT ![Len(stack)] = fr]

\* a call trace(situation, probability, supports), not yet entered (it = 0)
TraceFrame(n, q, sup) ==
  [f |-> "trace", situation |-> n, probability |-> q, supports |-> sup,
   it |-> 0, acc |-> 0]
\* a call traverse(iset, support); `from` (the dictionary the support was
\* taken from) and `maps` (the new_supports of the actions so far) are history
TraverseFrame(iset, support, from) ==
  [f |-> "traverse", iset |-> iset, support |-> support, pc |-> "action",
   ai |-> 1, si |-> 1, ki |-> 1, new_supports |-> 0, value |-> 0,
   best_responses |-> <<>>, values |-> <<>>, br_list |-> <<>>,
   from |-> from, maps |-> <<>>]
\* the body of __init__ from line 99 on
InitFrame == [f |-> "init", pc |-> "trace", ki |-> 1, value |-> 0]

SupportItem(n, q) == [situation |-> n, probability |-> q]

\* supports.setdefault(pi, list()).append(item), on a dictionary kept as
\* the sequence of its (key, list) pairs in insertion order
SetDefaultAppend(d, pi, item) ==
  IF \E i \in 1..Len(d) : d[i].key = pi
  THEN [i \in 1..Len(d) |->
          IF d[i].key = pi THEN [d[i] EXCEPT !.items = Append(@, item)] ELSE d[i]]
  ELSE Append(d, [key |-> pi, items |-> <<item>>])

\* dict.update: the entries of br replace those of d
Update(d, br) == br @@ d

\* the groups found so far are solved after each item of the support, not
\* after the last one
ResumeEager(c, v, br) ==
  CASE c.f = "trace" -> [c EXCEPT !.acc = @ + v, !.it = @ + 1]
    [] c.f = "traverse" /\ c.pc = "support" ->
         [c EXCEPT !.value = @ + v, !.si = @ + 1, !.pc = "items"]
    [] c.f = "traverse" /\ c.pc = "items" ->
         [c EXCEPT !.value = @ + v, !.best_responses = Update(@, br), !.ki = @ + 1]
    [] c.f = "init" /\ c.pc = "trace" -> [c EXCEPT !.value = v, !.pc = "items"]
    [] OTHER -> [c EXCEPT !.value = @ + v, !.ki = @ + 1]
\* the caller's frame after the callee returned v (and, from traverse, br)
Resume(c, v, br) ==
  CASE c.f = "trace" ->                                  \* line 63: sum(...)
         [c EXCEPT !.acc = @ + v, !.it = @ + 1]
    [] c.f = "traverse" /\ c.pc = "support" ->           \* line 79
         [c EXCEPT !.value = @ + v, !.si = @ + 1,
                   !.pc = IF c.si + 1 > Len(c.support) THEN "items" ELSE "support"]
    [] c.f = "traverse" /\ c.pc = "items" ->             \* lines 82-84
         [c EXCEPT !.value = @ + v, !.best_responses = Update(@, br), !.ki = @ + 1]
    [] c.f = "init" /\ c.pc = "trace" ->                 \* line 101
         [c EXCEPT !.value = v, !.pc = "items"]
    [] OTHER ->                                          \* lines 103-104
         [c EXCEPT !.value = @ + v, !.ki = @ + 1]

\* the callee on top of the stack returns v (and br) to its caller
Return(v, br) ==
  /\ stack' = [Callers EXCEPT ![Len(Callers)] = Resume(@, v, br)]
  /\ best_responses' =
       IF Callers[Len(Callers)].f = "init" /\ Callers[Len(Callers)].pc = "items"
       THEN Update(best_responses, br)                   \* line 105
       ELSE best_responses

\* a trace invocation returns v
TraceReturn(v) ==
  /\ Return(v, <<>>)
  /\ rets' = (Top.situation :> v) @@ rets

Running == status = "running" /\ stack # <<>>

\* ------------------------------------------------------------ entry points
\* exploitability, lines 156-162: the assertions, then the call of BestResponse
\* for the other seat against [strategy, strategy]
exploitability ==
  /\ status = "called" /\ call.entry = "exploitability"
  /\ IF call.player \in {0, 1} /\ game.players = 2
     THEN status' = "construct" /\ player' = 1 - call.player
     ELSE status' = "AssertionError" /\ UNCHANGED player
  /\ UNCHANGED <<inputs, nodes, heap, stack, best_responses, value, returned,
                 started, history>>

\* exploitability, line 163: return br.value
exploitabilityReturn ==
  /\ status = "constructed"
  /\ returned' = value
  /\ status' = "done"
  /\ UNCHANGED <<inputs, player, nodes, heap, stack, best_responses, value,
                 started, history>>

\* approx_exploitability, lines 182-183
approx_exploitability ==
  /\ status = "called" /\ call.entry = "approx_exploitability"
  /\ IF game.players = 2 /\ call.player \in {0, 1}
     THEN status' = "approx" /\ player' = 1 - call.player
     ELSE status' = "AssertionError" /\ UNCHANGED player
  /\ UNCHANGED <<inputs, nodes, heap, stack, best_responses, value, returned,
                 started, history>>

\* ApproxBestResponse and sample_value, lines 184-189: the training and the
\* sampling are outside this file; the estimate is some average of payoffs
ApproxBestResponse ==
  /\ status = "approx"
  /\ started' = TRUE
  /\ \E v \in {-ProbOne, 0, ProbOne} : returned' = <<v>>
  /\ status' = "done"
  /\ UNCHANGED <<inputs, player, nodes, heap, stack, best_responses, value, history>>

\* the length of the strategy profile is not asserted
PreconditionsNoLength(pl, ns, np) == pl < np /\ pl >= 0
\* the assertions of lines 36-37
Preconditions(pl, ns, np) == pl < np /\ pl >= 0 /\ ns = np

\* BestResponse.__init__, lines 35-38 and 99-101: the assertions, the
\* counter, the empty dictionaries and the call trace(game.start(), 1.0, supports)
BestResponseInit ==
  /\ \/ status = "called" /\ call.entry = "BestResponse"
     \/ status = "construct"
  /\ IF Preconditions(player, call.nstrategies, game.players)
     THEN /\ status' = "running"
          /\ nodes' = 0
          /\ heap' = << <<>> >>
          /\ best_responses' = <<>>
          /\ started' = TRUE
          /\ stack' = <<InitFrame, TraceFrame(Root, ProbOne, 1)>>
     ELSE /\ status' = "AssertionError"
          /\ UNCHANGED <<nodes, heap, best_responses, started, stack>>
  /\ UNCHANGED <<inputs, player, value, returned, history>>

\* ------------------------------------------------------------ trace
Entering == Running /\ Top.f = "trace" /\ Top.it = 0
Called == Append(calls, SupportItem(Top.situation, Top.probability))
\* a counter compared with >= where the code has >
ExceededOffByOne(n, mx) == n >= mx
\* line 44
Exceeded(n, mx) == n > mx
\* no situation is pruned
PrunedNever(q) == FALSE
\* line 49
Pruned(q) == q = 0

\* lines 43-47: the counter passes max_nodes
TraceLimit ==
  /\ Entering
  /\ Exceeded(nodes + 1, max_nodes)
  /\ nodes' = nodes + 1
  /\ calls' = Called
  /\ status' = "LimitExceeded"
  /\ stack' = <<>>
  /\ UNCHANGED <<inputs, player, heap, best_responses, value, returned, started,
                 read, solves, results, rets>>

\* the zero test moved before the counter: the call is not counted
TraceZeroUncounted ==
  /\ Entering
  /\ Pruned(Top.probability)
  /\ calls' = Called
  /\ TraceReturn(0)
  /\ UNCHANGED <<inputs, player, status, nodes, heap, value, returned, started,
                 read, solves, results>>

\* lines 43-50: a node reached with probability 0
TraceZero ==
  /\ Entering
  /\ ~Exceeded(nodes + 1, max_nodes)
  /\ Pruned(Top.probability)
  /\ nodes' = nodes + 1
  /\ calls' = Called
  /\ TraceReturn(0)
  /\ UNCHANGED <<inputs, player, status, heap, value, returned, started, read,
                 solves, results>>

\* the walker goes on to read the situation
Reads ==
  /\ Entering
  /\ ~Exceeded(nodes + 1, max_nodes)
  /\ ~Pruned(Top.probability)
  /\ nodes' = nodes + 1
  /\ calls' = Called
  /\ read' = read \cup {Top.situation}

\* line 51 on a malformed situation of a test double
TraceMalformed ==
  /\ Reads
  /\ game.tree[Top.situation].bad
  /\ status' = "Malformed"
  /\ stack' = <<>>
  /\ UNCHANGED <<inputs, player, heap, best_responses, value, returned, started,
                 solves, results, rets>>

\* lines 52-56: a situation of `player` joins the support of its observation
TracePlayer ==
  /\ Reads
  /\ ~game.tree[Top.situation].bad
  /\ game.tree[Top.situation].player = player
  /\ heap' = [heap EXCEPT ![Top.supports] =
                SetDefaultAppend(@, game.tree[Top.situation].obs,
                                 SupportItem(Top.situation, Top.probability))]
  /\ TraceReturn(0)
  /\ UNCHANGED <<inputs, player, status, value, returned, started, solves, results>>

\* lines 57-58
TraceTerminal ==
  /\ Reads
  /\ ~game.tree[Top.situation].bad
  /\ game.tree[Top.situation].player # player
  /\ game.tree[Top.situation].player = TERMINAL
  /\ TraceReturn(payoff(game, Top.situation)[player] * Top.probability)
  /\ UNCHANGED <<inputs, player, status, heap, value, returned, started, solves, results>>

\* lines 59-63: a chance or opponent situation; the sum starts
TraceExpand ==
  /\ Reads
  /\ ~game.tree[Top.situation].bad
  /\ game.tree[Top.situation].player # player
  /\ game.tree[Top.situation].player # TERMINAL
  /\ stack' = SetTop([Top EXCEPT !.it = 1])
  /\ UNCHANGED <<inputs, player, status, heap, best_responses, value, returned,
                 started, solves, results, rets>>

\* lines 63-65: the next term of the sum, trace(play(situation, action), pr * probability)
TraceRecurse ==
  /\ Running /\ Top.f = "trace" /\ Top.it \in 1..Len(Actions)
  /\ stack' = Append(stack,
       TraceFrame(play(Top.situation, Actions[Top.it]),
                  (DistOf(game.tree[Top.situation])[Top.it] * Top.probability) \div DistOne,
                  Top.supports))
  /\ UNCHANGED <<inputs, player, status, nodes, heap, best_responses, value,
                 returned, started, history>>

\* line 63: the sum is complete
TraceSum ==
  /\ Running /\ Top.f = "trace" /\ Top.it > Len(Actions)
  /\ TraceReturn(Top.acc)
  /\ UNCHANGED <<inputs, player, status, nodes, heap, value, returned, started,
                 calls, read, solves, results>>

\* ------------------------------------------------------------ traverse
RECURSIVE SumSeq(_)
SumSeq(q) == IF q = <<>> THEN 0 ELSE q[1] + SumSeq(Tail(q))
\* the first value taken for the maximum
FirstOf(values) == values[1]
\* values.max()
MaxOf(values) == CHOOSE m \in {values[i] : i \in DOMAIN values} :
                   \A i \in DOMAIN values : values[i] <= m
\* argmax: only the first action of maximal value is best
IsBestFirst(values, mx) ==
  [i \in DOMAIN values |-> values[i] = mx /\ \A j \in 1..(i - 1) : values[j] # mx]
\* line 90: values >= (mx - mx * 0e-6)
IsBest(values, mx) == [i \in DOMAIN values |-> values[i] >= mx - mx * 0]
\* line 92: is_best.astype(np.float)
AsFloat(is_best) == [i \in DOMAIN is_best |-> IF is_best[i] THEN 1 ELSE 0]
\* line 93: bdist / sum(bdist), each quotient kept as <<numerator, denominator>>
Normalized(bdist) == [i \in DOMAIN bdist |-> <<bdist[i], SumSeq(bdist)>>]
\* the sub-policies of the best actions are not merged
UpdateNone(br_result, br_list, is_best, i) == br_result
\* the sub-policies of all actions are merged, best or not
RECURSIVE UpdateAll(_, _, _, _)
UpdateAll(br_result, br_list, is_best, i) ==
  IF i > Len(br_list) THEN br_result
  ELSE UpdateAll(Update(br_result, br_list[i]), br_list, is_best, i + 1)
\* lines 94-96: the sub-policies of the best actions, in order, update br_result
RECURSIVE UpdateBest(_, _, _, _)
UpdateBest(br_result, br_list, is_best, i) ==
  IF i > Len(br_list) THEN br_result
  ELSE UpdateBest(IF is_best[i] THEN Update(br_result, br_list[i]) ELSE br_result,
                  br_list, is_best, i + 1)
\* lines 88-96
BrResult(iset, values, br_list) ==
  LET is_best == IsBest(values, MaxOf(values)) IN
  UpdateBest((iset :> Normalized(AsFloat(is_best))), br_list, is_best, 1)

InTraverse == Running /\ Top.f = "traverse"

\* lines 72-76: the next action; fresh new_supports, value and best_responses
TraverseAction ==
  /\ InTraverse /\ Top.pc = "action" /\ Top.ai <= Len(Actions)
  /\ heap' = Append(heap, <<>>)
  /\ stack' = SetTop([Top EXCEPT !.new_supports = Len(heap) + 1, !.value = 0,
                                 !.best_responses = <<>>, !.si = 1, !.ki = 1,
                                 !.pc = "support",
                                 !.maps = Append(@, Len(heap) + 1)])
  /\ UNCHANGED <<inputs, player, status, nodes, best_responses, value, returned,
                 started, history>>

\* lines 78-80: the walker on the successor of the next item of the support
TraverseTrace ==
  /\ InTraverse /\ Top.pc = "support"
  /\ stack' = Append(stack,
       TraceFrame(play(Top.support[Top.si].situation, Actions[Top.ai]),
                  Top.support[Top.si].probability, Top.new_supports))
  /\ UNCHANGED <<inputs, player, status, nodes, heap, best_responses, value,
                 returned, started, history>>

\* lines 81-82: the next information set found behind the action is solved
TraverseSolve ==
  /\ InTraverse /\ Top.pc = "items" /\ Top.ki <= Len(heap[Top.new_supports])
  /\ LET item == heap[Top.new_supports][Top.ki] IN
       /\ stack' = Append(stack, TraverseFrame(item.key, item.items, Top.new_supports))
       /\ solves' = Append(solves, [map |-> Top.new_supports, key |-> item.key,
                                    n |-> Len(item.items)])
  /\ UNCHANGED <<inputs, player, status, nodes, heap, best_responses, value,
                 returned, started, calls, read, results, rets>>

\* line 86 (and 76: br_list holds the dictionary that line 84 filled)
TraverseValue ==
  /\ InTraverse /\ Top.pc = "items" /\ Top.ki > Len(heap[Top.new_supports])
  /\ stack' = SetTop([Top EXCEPT !.values = Append(@, Top.value),
                                 !.br_list = Append(@, Top.best_responses),
                                 !.ai = @ + 1, !.pc = "action"])
  /\ UNCHANGED <<inputs, player, status, nodes, heap, best_responses, value,
                 returned, started, history>>

\* lines 88-97: return mx, br_result
TraverseReturn ==
  /\ InTraverse /\ Top.pc = "action" /\ Top.ai > Len(Actions)
  /\ Return(MaxOf(Top.values), BrResult(Top.iset, Top.values, Top.br_list))
  /\ results' = Append(results, [from |-> Top.from, iset |-> Top.iset,
                                  values |-> Top.values, maps |-> Top.maps])
  /\ UNCHANGED <<inputs, player, status, nodes, heap, value, returned, started,
                 calls, read, solves, rets>>

\* ------------------------------------------------------------ __init__, lines 102-106
InInit == Running /\ Top.f = "init" /\ Top.pc = "items"

\* lines 102-103: the next root-level information set is solved
InitSolve ==
  /\ InInit /\ Top.ki <= Len(heap[1])
  /\ LET item == heap[1][Top.ki] IN
       /\ stack' = Append(stack, TraverseFrame(item.key, item.items, 1))
       /\ solves' = Append(solves, [map |-> 1, key |-> item.key, n |-> Len(item.items)])
  /\ UNCHANGED <<inputs, player, status, nodes, heap, best_responses, value,
                 returned, started, calls, read, results, rets>>

\* line 106: self.value = value
InitValue ==
  /\ InInit /\ Top.ki > Len(heap[1])
  /\ value' = <<Top.value>>
  /\ stack' = <<>>
  /\ status' = IF call.entry = "exploitability" THEN "constructed" ELSE "done"
  /\ UNCHANGED <<inputs, player, nodes, heap, best_responses, returned, started, history>>

Next ==
  \/ exploitability
  \/ exploitabilityReturn
  \/ approx_exploitability
  \/ ApproxBestResponse
  \/ BestResponseInit
  \/ TraceLimit
  \/ TraceZero
  \/ TraceMalformed
  \/ TracePlayer
  \/ TraceTerminal
  \/ TraceExpand
  \/ TraceRecurse
  \/ TraceSum
  \/ TraverseAction
  \/ TraverseTrace
  \/ TraverseSolve
  \/ TraverseValue
  \/ TraverseReturn
  \/ InitSolve
  \/ InitValue

Spec == Init /\ [][Next]_vars

\* ============================================================ properties
\* BestResponse.__init__ ran to its end
Constructed == value # <<>>

\* the reach probability the walker for `pl` gives node n: chance and
\* opponent edges multiply, the edges of pl's own actions do not
RECURSIVE Reach(_, _, _)
Reach(t, pl, n) ==
  IF n = Root THEN ProbOne
  ELSE IF ~InTree(t, n) THEN 0
  ELSE IF t[Parent(n)].player = pl THEN Reach(t, pl, Parent(n))
  ELSE (EdgeDist(t, n) * Reach(t, pl, Parent(n))) \div DistOne

\* the true number of nodes of the game's tree
NodeCount(t) == Cardinality({n \in Nodes : InTree(t, n)})
\* the nodes the unlimited traversal calls the walker on: the root and the
\* successors of every node reached with positive probability
Walked(t, pl) ==
  Cardinality({n \in Nodes :
     InTree(t, n) /\ (n = Root \/ Reach(t, pl, Parent(n)) > 0)})

\* ------------------------------------------------------------ C3
\* C3 as claimed: max_nodes below the true number of nodes of the tree ends
\* in LimitExceeded, max_nodes above it never does.
C3_BelowNodeCountFails ==
  /\ Constructed => ~(max_nodes < NodeCount(game.tree))
  /\ status = "LimitExceeded" => ~(max_nodes > NodeCount(game.tree))

\* C3 amended: the budget counts the walker invocations, which leave out
\* the nodes below an edge of probability 0.  max_nodes below the number of
\* invocations ends in LimitExceeded (never in a constructed object),
\* max_nodes at or above it never ends in LimitExceeded; and a running
\* traversal can always take its next step.
C3_BelowWalkedFails ==
  /\ Constructed => max_nodes >= Walked(game.tree, player)
  /\ status = "LimitExceeded" =>
       /\ max_nodes < Walked(game.tree, player)
       /\ nodes = max_nodes + 1
  /\ status = "running" => ENABLED Next

\* a game whose tree has more nodes than max_nodes is solved all the same
C3_Witness ==
  /\ Constructed
  /\ max_nodes = Walked(game.tree, player)
  /\ max_nodes < NodeCount(game.tree)

\* ------------------------------------------------------------ C8
\* the positions in `calls` of the invocations with reach probability 0
ZeroCalls == {i \in DOMAIN calls : calls[i].probability = 0}

\* C8 as claimed: an invocation with reach probability 0 returns before the
\* counter is touched, so it neither uses budget nor raises LimitExceeded.
C8_ZeroBeforeCounter ==
  /\ nodes = Cardinality(DOMAIN calls \ ZeroCalls)
  /\ status = "LimitExceeded" => Len(calls) \notin ZeroCalls

\* C8 amended: every invocation, also one with reach probability 0, is
\* counted and compared with max_nodes first; an invocation with reach
\* probability 0 that passes the comparison returns 0 without reading the
\* situation and without calling the walker on a successor.
C8_ZeroAfterCounter ==
  /\ nodes = Len(calls)
  /\ \A i \in ZeroCalls :
       LET n == calls[i].situation IN
       /\ n \notin read
       /\ \A j \in DOMAIN calls : calls[j].situation = n \/ Parent(calls[j].situation) # n
       /\ n \in DOMAIN rets => rets[n] = 0
       /\ \/ n \in DOMAIN rets
          \/ status = "LimitExceeded" /\ i = Len(calls)
          \/ Entering /\ Top.situation = n

\* an invocation with reach probability 0 raised LimitExceeded
C8_Witness ==
  /\ status = "LimitExceeded"
  /\ Len(calls) \in ZeroCalls

\* ------------------------------------------------------------ C1
\* the situations of the game at which pl acts
OwnNodes(t, pl) == {n \in Nodes : InTree(t, n) /\ IsInner(t[n]) /\ t[n].player = pl}
\* the (observation, action) pairs of pl on the way to n
RECURSIVE OwnHistory(_, _, _)
OwnHistory(t, pl, n) ==
  IF n = Root THEN <<>>
  ELSE IF Parent(n) \in OwnNodes(t, pl)
       THEN Append(OwnHistory(t, pl, Parent(n)), <<t[Parent(n)].obs, ActionTo(n)>>)
       ELSE OwnHistory(t, pl, Parent(n))
\* pl never forgets what it saw and did: the situations of one information
\* set are reached by the same observations and actions of pl
PerfectRecall(t, pl) ==
  \A n, m \in OwnNodes(t, pl) :
     t[n].obs = t[m].obs => OwnHistory(t, pl, n) = OwnHistory(t, pl, m)

\* one action per information set
PureStrategies == [ObsKeys -> 1..Len(Actions)]
\* the expected payoff of pl below n, reached with probability q, when pl
\* plays sigma; a malformed node stands for any subtree and is given the
\* payoff MalformedPayoff
MalformedPayoff == ProbOne + ProbOne
RECURSIVE Expected(_, _, _, _, _)
Expected(g, pl, sigma, n, q) ==
  LET r == g.tree[n] IN
  IF r.bad THEN MalformedPayoff * q
  ELSE IF r.player = TERMINAL THEN payoff(g, n)[pl] * q
  ELSE IF r.player = pl THEN Expected(g, pl, sigma, play(n, sigma[r.obs]), q)
  ELSE SumSeq([a \in 1..Len(Actions) |->
                 Expected(g, pl, sigma, play(n, a), (DistOf(r)[a] * q) \div DistOne)])
BestPureValue(g, pl) ==
  LET vals == {Expected(g, pl, sigma, Root, ProbOne) : sigma \in PureStrategies} IN
  CHOOSE v \in vals : \A w \in vals : w <= v

\* C1: with perfect recall, a completed BestResponse stores the maximum over
\* the pure strategies of its player of the expected payoff against chance
\* and the fixed strategies of the others.
C1_ValueIsBestPureValue ==
  (Constructed /\ PerfectRecall(game.tree, player))
     => value[1] = BestPureValue(game, player)

\* a game of imperfect information behind a chance move, solved to a value
\* that mixes two information sets
C1_Witness ==
  /\ Constructed /\ PerfectRecall(game.tree, player)
  /\ game.tree[Root].player = CHANCE
  /\ Cardinality(DOMAIN best_responses) = 2
  /\ value[1] = 0

\* ------------------------------------------------------------ C2
\* 1/k on each of the k maximal entries of values, 0 elsewhere
UniformOverMax(values) ==
  LET mx == CHOOSE v \in {values[a] : a \in DOMAIN values} :
              \A a \in DOMAIN values : values[a] <= v
      k == Cardinality({a \in DOMAIN values : values[a] = mx}) IN
  [a \in DOMAIN values |-> IF values[a] = mx THEN <<1, k>> ELSE <<0, k>>]
SumsToOne(entry) ==
  \A a \in DOMAIN entry :
     SumSeq([b \in DOMAIN entry |-> entry[b][1]]) = entry[a][2]
\* matching pennies: the first seat moves, the second seat answers without
\* seeing the move, equal moves pay the first seat
MatchingPennies ==
  MakeTree(DecisionNode(0, 1), DecisionNode(1, 2), DecisionNode(1, 2),
           TermNode(1), TermNode(-1), TermNode(-1), TermNode(1))

\* C2: every entry of the policy is the uniform distribution over the
\* actions of maximal total value of a solve of that information set, and
\* sums to 1; matching pennies against the uniform strategy gives value 0
\* and the uniform policy.
C2_UniformOverBestActions ==
  /\ \A k \in DOMAIN best_responses :
        /\ \E i \in DOMAIN results :
              /\ results[i].iset = k
              /\ best_responses[k] = UniformOverMax(results[i].values)
        /\ SumsToOne(best_responses[k])
  /\ (Constructed /\ game.tree = MatchingPennies /\ player = 1) =>
        /\ value = <<0>>
        /\ best_responses = (2 :> << <<1, 2>>, <<1, 2>> >>)

C2_Witness ==
  /\ Constructed /\ game.tree = MatchingPennies /\ player = 1
  /\ 2 \in DOMAIN best_responses

\* ------------------------------------------------------------ C9
\* the expected payoff of pl below n when pl plays the policy br; a missing
\* entry ends the play with nothing
RECURSIVE PolicyValue(_, _, _, _, _)
PolicyValue(g, pl, br, n, q) ==
  LET r == g.tree[n] IN
  IF q = 0 THEN 0
  ELSE IF r.bad THEN MalformedPayoff * q
  ELSE IF r.player = TERMINAL THEN payoff(g, n)[pl] * q
  ELSE IF r.player = pl
       THEN IF r.obs \in DOMAIN br
            THEN SumSeq([a \in 1..Len(Actions) |->
                    PolicyValue(g, pl, br, play(n, a),
                                (br[r.obs][a][1] * q) \div br[r.obs][a][2])])
            ELSE 0
  ELSE SumSeq([a \in 1..Len(Actions) |->
                 PolicyValue(g, pl, br, play(n, a), (DistOf(r)[a] * q) \div DistOne)])
\* the probability of reaching n when pl plays the policy br
RECURSIVE PolicyReach(_, _, _, _)
PolicyReach(t, pl, br, n) ==
  IF n = Root THEN ProbOne
  ELSE IF ~InTree(t, n) THEN 0
  ELSE LET p == Parent(n)
           q == PolicyReach(t, pl, br, p) IN
       IF t[p].player = pl
       THEN IF t[p].obs \in DOMAIN br
            THEN (br[t[p].obs][ActionTo(n)][1] * q) \div br[t[p].obs][ActionTo(n)][2]
            ELSE 0
       ELSE (EdgeDist(t, n) * q) \div DistOne

\* C9: with perfect recall, every information set reached with positive
\* probability under the returned policy has an entry, and playing the
\* policy earns the returned value.
C9_PolicyClosedUnderPlay ==
  (Constructed /\ PerfectRecall(game.tree, player)) =>
     /\ \A n \in OwnNodes(game.tree, player) :
           PolicyReach(game.tree, player, best_responses, n) > 0
              => game.tree[n].obs \in DOMAIN best_responses
     /\ PolicyValue(game, player, best_responses, Root, ProbOne) = value[1]

\* the policy is played through two information sets in a row, and an
\* information set behind a discarded action is never entered
C9_Witness ==
  /\ Constructed /\ PerfectRecall(game.tree, player)
  /\ Root \in OwnNodes(game.tree, player)
  /\ \E n \in OwnNodes(game.tree, player) \ {Root} :
        PolicyReach(game.tree, player, best_responses, n) > 0
  /\ \E n \in OwnNodes(game.tree, player) :
        game.tree[n].obs \notin DOMAIN best_responses

\* ------------------------------------------------------------ C4
\* the tree with everything behind an edge of probability 0 cut off: the
\* node behind the edge becomes a terminal node worth nothing
Cut(t, pl) ==
  [n \in Nodes |->
     IF ~InTree(t, n) \/ n = Root THEN t[n]
     ELSE IF Reach(t, pl, n) > 0 THEN t[n]
     ELSE IF Reach(t, pl, Parent(n)) > 0 THEN TermNode(0)
     ELSE Absent]

\* C4: where malformed nodes stand only behind chance or opponent edges of
\* probability 0, the traversal never reads one; it reads no node reached
\* with probability 0 at all, calls the walker on no successor of such a
\* node and gets 0 from it; and with perfect recall the stored value is the
\* best value of the game with these subtrees cut off.
C4_ZeroBranchesPruned ==
  BadSafe(game.tree, player) =>
     /\ status # "Malformed"
     /\ \A i \in DOMAIN calls :
           LET n == calls[i].situation IN
           /\ calls[i].probability = Reach(game.tree, player, n)
           /\ n \in read => calls[i].probability > 0
           /\ calls[i].probability = 0 =>
                /\ \A j \in DOMAIN calls : Parent(calls[j].situation) # n
                /\ n \in DOMAIN rets => rets[n] = 0
     /\ (Constructed /\ PerfectRecall(game.tree, player)) =>
           value[1] = BestPureValue([game EXCEPT !.tree = Cut(game.tree, player)], player)

\* a malformed node behind an edge of probability 0 was handed to the
\* walker, and the computation completed
C4_Witness ==
  /\ Constructed
  /\ \E n \in DOMAIN rets : game.tree[n].bad
  /\ \E n \in Nodes : InTree(game.tree, n) /\ ~InTree(Cut(game.tree, player), n)

\* ------------------------------------------------------------ C5
\* the payoffs of every terminal node of the game sum to 0
RECURSIVE SumTo(_, _)
SumTo(vec, i) == IF i < 0 THEN 0 ELSE vec[i] + SumTo(vec, i - 1)
ZeroSum(g) ==
  \A n \in Nodes :
     (InTree(g.tree, n) /\ ~g.tree[n].bad /\ g.tree[n].player = TERMINAL)
        => SumTo(payoff(g, n), g.players - 1) = 0

\* C5: what exploitability returns for a two-player zero-sum game is never
\* negative.
C5_ExploitabilityNonNegative ==
  (call.entry = "exploitability" /\ returned # <<>> /\ game.players = 2 /\ ZeroSum(game))
     => returned[1] >= 0

\* ------------------------------------------------------------ C6
NoWork ==
  /\ status \in {"called", "AssertionError"}
  /\ ~started /\ nodes = 0 /\ calls = <<>> /\ stack = <<>>
  /\ value = <<>> /\ returned = <<>> /\ best_responses = <<>>
\* the preconditions the entry points assert
PlayerOutOfRange ==
  IF call.entry = "BestResponse"
  THEN ~(0 <= call.player /\ call.player < game.players)
  ELSE call.player \notin {0, 1}
ProfileLengthWrong ==
  call.entry = "BestResponse" /\ call.nstrategies # game.players
NotTwoPlayer == call.entry # "BestResponse" /\ game.players # 2
NotZeroSum == call.entry # "BestResponse" /\ ~ZeroSum(game)

\* C6 as claimed: each of the four violations, a game that is not zero-sum
\* among them, fails the call before any traversal work.
C6_EveryViolationFailsFast ==
  (PlayerOutOfRange \/ ProfileLengthWrong \/ NotTwoPlayer \/ NotZeroSum) => NoWork

\* C6 amended: a player out of range, a profile of the wrong length and a
\* game that is not two-player fail the call before any traversal work.
C6_AssertedViolationsFailFast ==
  (PlayerOutOfRange \/ ProfileLengthWrong \/ NotTwoPlayer) => NoWork

\* a call with a profile of the wrong length, and nothing else wrong, failed
C6_Witness ==
  /\ status = "AssertionError"
  /\ ProfileLengthWrong /\ ~PlayerOutOfRange

\* ------------------------------------------------------------ C7
\* the keys that received a ReachItem in the dictionary m
KeysOf(m) == {heap[m][i].key : i \in DOMAIN heap[m]}
\* the dictionaries whose information sets the policy keeps: the root's,
\* and the new_supports of a maximal action of a kept information set
RECURSIVE KeptMaps(_)
KeptMaps(k) ==
  IF k = 0 THEN {1}
  ELSE LET prev == KeptMaps(k - 1) IN
       prev \cup UNION {
         {results[i].maps[a] : a \in {b \in 1..Len(Actions) :
              \A c \in 1..Len(Actions) : results[i].values[c] <= results[i].values[b]}} :
         i \in {j \in DOMAIN results : results[j].from \in prev}}
Kept == KeptMaps(Len(results))

\* C7 as claimed: every information set that received a ReachItem at any
\* point has an entry in the returned policy.
C7_EveryVisitedSetHasEntry ==
  Constructed => \A m \in DOMAIN heap : KeysOf(m) \subseteq DOMAIN best_responses

\* C7 amended: the returned policy has an entry exactly for the information
\* sets visited at the root level or behind a maximal action of an
\* information set that itself has one this way.
C7_KeptSetsHaveEntries ==
  Constructed => DOMAIN best_responses = UNION {KeysOf(m) : m \in Kept}

\* a kept information set behind a best action, and a visited one without entry
C7_Witness ==
  /\ Constructed
  /\ \E m \in Kept \ {1} : KeysOf(m) # {}
  /\ \E m \in DOMAIN heap : ~(KeysOf(m) \subseteq DOMAIN best_responses)

\* ------------------------------------------------------------ C10
\* the ReachItems of the group with key k in the dictionary m
GroupItems(m, k) ==
  LET i == CHOOSE j \in DOMAIN heap[m] : heap[m][j].key = k IN heap[m][i].items
Solved == {<<solves[i].map, solves[i].key>> : i \in DOMAIN solves}
\* the frame that called the chain of trace frames ending at position i
RECURSIVE Walker(_)
Walker(i) == IF stack[i].f = "trace" THEN Walker(i - 1) ELSE stack[i]
\* the items loop of a frame over the dictionary m stands at position ki:
\* the groups before it are solved, the groups after it are not, and the
\* group at it is solved only while its traverse frame is the next frame
ItemsLoop(i, m, ki) ==
  \A j \in DOMAIN heap[m] :
     LET g == <<m, heap[m][j].key>> IN
     /\ j < ki => g \in Solved
     /\ j > ki => g \notin Solved
     /\ j = ki => (g \in Solved <=>
                     (i < Len(stack) /\ stack[i + 1].f = "traverse"
                        /\ stack[i + 1].from = m /\ stack[i + 1].iset = g[2]))

\* C10: a group is complete when its solve starts and is never appended to
\* afterwards; the walker runs only in the first pass of the frame that owns
\* the dictionary it fills; the second pass starts after the walker has
\* returned for every reach item, and solves each group of the fresh
\* dictionary once, in order.
C10_WalkThenSolve ==
  /\ \A i \in DOMAIN solves :
        Len(GroupItems(solves[i].map, solves[i].key)) = solves[i].n
  /\ \A i, j \in DOMAIN solves :
        (solves[i].map = solves[j].map /\ solves[i].key = solves[j].key) => i = j
  /\ Constructed => \A m \in DOMAIN heap : \A k \in KeysOf(m) : <<m, k>> \in Solved
  /\ \A i \in DOMAIN stack :
        LET fr == stack[i] IN
        /\ fr.f = "trace" =>
              LET w == Walker(i) IN
              /\ w.f = "init" => (w.pc = "trace" /\ fr.supports = 1)
              /\ w.f = "traverse" =>
                    /\ w.pc = "support" /\ fr.supports = w.new_supports
                    /\ \A s \in DOMAIN solves : solves[s].map # fr.supports
        /\ fr.f = "traverse" =>
              /\ fr.support = GroupItems(fr.from, fr.iset)
              /\ <<fr.from, fr.iset>> \in Solved
              /\ fr.pc # "action" =>
                    /\ fr.new_supports = Len(heap) \/ fr.pc = "items"
                    /\ fr.new_supports > fr.from
              /\ fr.pc = "support" =>
                    /\ fr.si <= Len(fr.support)
                    /\ \A s \in DOMAIN solves : solves[s].map # fr.new_supports
              /\ fr.pc = "items" =>
                    /\ fr.si = Len(fr.support) + 1
                    /\ ItemsLoop(i, fr.new_supports, fr.ki)
        /\ (fr.f = "init" /\ fr.pc = "items") => ItemsLoop(i, 1, fr.ki)
        /\ (fr.f = "init" /\ fr.pc = "trace") => solves = <<>>

\* a solve nested in a solve, the inner one in its first pass: the walker
\* fills the inner frame's dictionary while the outer loop waits
C10_Witness ==
  /\ Len(stack) = 4
  /\ stack[2].f = "traverse" /\ stack[3].f = "traverse" /\ stack[4].f = "trace"
  /\ stack[2].pc = "items" /\ stack[3].pc = "support"
  /\ stack[4].supports = stack[3].new_supports

====
